---- MODULE Spec2Model ----
(***************************************************************************)
(* GymmyBotAPI (src/main.py): the user-scoped workout record keeper.       *)
(* The store holds three tables (users, exercises, sets); every handler is *)
(* an operator from the store and the request to a status, a body and the  *)
(* store after the commit.  Actions apply the handlers to requests drawn   *)
(* from small input sets.                                                  *)
(***************************************************************************)
EXTENDS Integers, Sequences, FiniteSets

VARIABLES users, exercises, sets, request, response, clients

vars == <<users, exercises, sets, request, response, clients>>

(***************************************************************************)
(* Bounds and input sets                                                   *)
(***************************************************************************)
MaxExercises == 2
MaxSetId == 2
NumClients == 3

\* Python's None for an Optional[str] field
None == "<None>"

\* request bodies of POST /users/ (full_name and username default to None)
UserPayloads == {[telegram_id |-> 1, full_name |-> "Ann", username |-> "ann"],
                 [telegram_id |-> 1, full_name |-> None, username |-> None],
                 [telegram_id |-> 2, full_name |-> "Bob", username |-> "bob"]}
ExercisePayloads == {[name |-> "Bench Press", description |-> "barbell"]}
Dates == {1, 2}
ExerciseIdArgs == 0 .. (MaxExercises + 1)
SetIdArgs == 1 .. (MaxSetId + 1)
SetPayloads == [exercise_id : 1 .. (MaxExercises + 1), weight : {80}, reps : {5},
                set_number : {1}, date : Dates]
\* Optional[int] query parameter: <<>> is None, <<v>> is the integer v
ExerciseIdFilters == {<<>>} \cup {<<v>> : v \in ExerciseIdArgs}
\* bearer tokens, as strings of characters
Tokens == {<<"1">>, <<"0", "2">>, <<"x">>}

(***************************************************************************)
(* Helpers                                                                 *)
(***************************************************************************)
Range(s) == {s[i] : i \in DOMAIN s}

\* the orders in which the engine may yield the rows of a table
Scans(rows) == {s \in [1 .. Cardinality(rows) -> rows] : Range(s) = rows}

MaxOf(S) == CHOOSE m \in S : \A x \in S : x <= m

\* INTEGER PRIMARY KEY: the engine assigns max(id) + 1, 1 for an empty table
NextId(rows) == IF rows = {} THEN 1 ELSE MaxOf({r.id : r \in rows}) + 1

DigitChars == <<"0", "1", "2", "3", "4", "5", "6", "7", "8", "9">>
IsDigit(c) == \E i \in DOMAIN DigitChars : DigitChars[i] = c
DigitVal(c) == (CHOOSE i \in DOMAIN DigitChars : DigitChars[i] = c) - 1

RECURSIVE DecimalValue(_)
DecimalValue(tok) ==
    IF tok = <<>> THEN 0
    ELSE 10 * DecimalValue(SubSeq(tok, 1, Len(tok) - 1)) + DigitVal(tok[Len(tok)])

\* int(token): the value of a string of decimal digits, ValueError otherwise
ParseInt(tok) ==
    IF tok # <<>> /\ \A i \in DOMAIN tok : IsDigit(tok[i])
    THEN [ok |-> TRUE, value |-> DecimalValue(tok)]
    ELSE [ok |-> FALSE, value |-> 0]

DB == [users |-> users, exercises |-> exercises, sets |-> sets]

Result(status, body, db) == [status |-> status, body |-> body, db |-> db]

(***************************************************************************)
(* get_current_user                                                        *)
(***************************************************************************)
NoUser == [id |-> 0, telegram_id |-> 0, full_name |-> None, username |-> None]

get_current_user(db, token) ==
    LET p == ParseInt(token) IN
    IF ~p.ok
    THEN [status |-> 500, detail |-> "Internal Server Error", user |-> NoUser]
    ELSE LET found == {u \in db.users : u.telegram_id = p.value} IN
         IF found = {}
         THEN [status |-> 401, detail |-> "Invalid authentication credentials",
               user |-> NoUser]
         ELSE [status |-> 200, detail |-> "", user |-> CHOOSE u \in found : TRUE]

(***************************************************************************)
(* create_user                                                             *)
(***************************************************************************)
\* faulty variant: the lookup compares the primary key with the request's telegram_id
UserExistsById(db, user) == \E u \in db.users : u.id = user.telegram_id

\* the lookup of create_user: a stored User with the request's telegram_id
UserExists(db, user) == \E u \in db.users : u.telegram_id = user.telegram_id

\* faulty variant: the column is declared without unique=True
NoUniqueConstraint(db, telegram_id) == TRUE

\* users.telegram_id is UNIQUE: the engine refuses a second row with the value
UniqueTelegramId(db, telegram_id) == \A u \in db.users : u.telegram_id # telegram_id

NewUser(db, user) ==
    [id |-> NextId(db.users), telegram_id |-> user.telegram_id,
     full_name |-> user.full_name, username |-> user.username]

\* db.add; db.commit: the row is stored, or the commit fails on the constraint
InsertUser(db, user) ==
    IF UniqueTelegramId(db, user.telegram_id)
    THEN Result(200, user, [db EXCEPT !.users = @ \cup {NewUser(db, user)}])
    ELSE Result(500, "Internal Server Error", db)

create_user(db, user) ==
    IF UserExists(db, user)
    THEN Result(400, "User already exists", db)
    ELSE InsertUser(db, user)

(***************************************************************************)
(* exercises                                                               *)
(***************************************************************************)
\* faulty variant: the owner is taken from current_user.telegram_id
create_exercise_telegram_owner(db, token, exercise) ==
    LET auth == get_current_user(db, token) IN
    IF auth.status # 200 THEN Result(auth.status, auth.detail, db)
    ELSE LET db_exercise == [id |-> NextId(db.exercises),
                             user_id |-> auth.user.telegram_id,
                             name |-> exercise.name,
                             description |-> exercise.description]
         IN Result(200, db_exercise,
                   [db EXCEPT !.exercises = @ \cup {db_exercise}])

create_exercise(db, token, exercise) ==
    LET auth == get_current_user(db, token) IN
    IF auth.status # 200 THEN Result(auth.status, auth.detail, db)
    ELSE LET db_exercise == [id |-> NextId(db.exercises), user_id |-> auth.user.id,
                             name |-> exercise.name,
                             description |-> exercise.description]
         IN Result(200, db_exercise,
                   [db EXCEPT !.exercises = @ \cup {db_exercise}])

\* ExerciseDB.user_id == current_user.id
UserExercises(db, user_id) == {e \in db.exercises : e.user_id = user_id}

\* scan: the order in which the engine yields the selected rows (no ORDER BY)
get_exercises(db, token, scan) ==
    LET auth == get_current_user(db, token) IN
    IF auth.status # 200 THEN Result(auth.status, auth.detail, db)
    ELSE Result(200, SelectSeq(scan, LAMBDA e : e \in UserExercises(db, auth.user.id)), db)

\* the orders in which GET /exercises/ may find its rows
ExerciseScans(db, token) ==
    Scans(UserExercises(db, get_current_user(db, token).user.id))

\* faulty variant: the query omits the user_id condition
ExercisesById(db, exercise_id, user_id) ==
    {e \in db.exercises : e.id = exercise_id}

\* ExerciseDB.id == exercise_id, ExerciseDB.user_id == current_user.id
OwnedExercises(db, exercise_id, user_id) ==
    {e \in db.exercises : e.id = exercise_id /\ e.user_id = user_id}

get_exercise(db, token, exercise_id) ==
    LET auth == get_current_user(db, token) IN
    IF auth.status # 200 THEN Result(auth.status, auth.detail, db)
    ELSE LET found == OwnedExercises(db, exercise_id, auth.user.id) IN
         IF found = {} THEN Result(404, "Exercise not found", db)
         ELSE Result(200, CHOOSE e \in found : TRUE, db)

(***************************************************************************)
(* sets                                                                    *)
(***************************************************************************)
\* faulty variant: the Set is added and committed before the Exercise is looked up
create_set_commit_first(db, token, set_data) ==
    LET auth == get_current_user(db, token) IN
    IF auth.status # 200 THEN Result(auth.status, auth.detail, db)
    ELSE LET db_set == [id |-> NextId(db.sets), user_id |-> auth.user.id,
                        exercise_id |-> set_data.exercise_id,
                        weight |-> set_data.weight, reps |-> set_data.reps,
                        set_number |-> set_data.set_number,
                        date |-> set_data.date]
             stored == [db EXCEPT !.sets = @ \cup {db_set}]
         IN IF {e \in db.exercises : e.id = set_data.exercise_id
                                      /\ e.user_id = auth.user.id} = {}
            THEN Result(404, "Exercise not found", stored)
            ELSE Result(200, db_set, stored)

create_set(db, token, set_data) ==
    LET auth == get_current_user(db, token) IN
    IF auth.status # 200 THEN Result(auth.status, auth.detail, db)
    ELSE IF OwnedExercises(db, set_data.exercise_id, auth.user.id) = {}
         THEN Result(404, "Exercise not found", db)
         ELSE LET db_set == [id |-> NextId(db.sets), user_id |-> auth.user.id,
                             exercise_id |-> set_data.exercise_id,
                             weight |-> set_data.weight, reps |-> set_data.reps,
                             set_number |-> set_data.set_number,
                             date |-> set_data.date]
              IN Result(200, db_set, [db EXCEPT !.sets = @ \cup {db_set}])

\* "if exercise_id:" on an Optional[int]
Truthy(exercise_id) == exercise_id # <<>> /\ exercise_id[1] # 0

\* faulty variant: ORDER BY date ASC
BeforeAscending(a, b) == a.date < b.date

\* row a comes before row b under ORDER BY date DESC
Before(a, b) == a.date > b.date

RECURSIVE InsertSorted(_, _)
InsertSorted(row, sorted) ==
    IF sorted = <<>> THEN <<row>>
    ELSE IF Before(row, sorted[1]) THEN <<row>> \o sorted
    ELSE <<sorted[1]>> \o InsertSorted(row, Tail(sorted))

\* a stable sort of the rows the scan yields (ties keep the scan's order)
RECURSIVE OrderByDateDesc(_)
OrderByDateDesc(rows) ==
    IF rows = <<>> THEN <<>>
    ELSE InsertSorted(rows[Len(rows)], OrderByDateDesc(SubSeq(rows, 1, Len(rows) - 1)))

\* SetDB.user_id == current_user.id, and SetDB.exercise_id == exercise_id when
\* the "if exercise_id:" branch is taken
SetsQuery(db, user_id, exercise_id) ==
    LET mine == {s \in db.sets : s.user_id = user_id} IN
    IF Truthy(exercise_id)
    THEN {s \in mine : s.exercise_id = exercise_id[1]}
    ELSE mine

\* scan: the order in which the engine yields the selected rows to the sort
get_sets(db, token, exercise_id, scan) ==
    LET auth == get_current_user(db, token) IN
    IF auth.status # 200 THEN Result(auth.status, auth.detail, db)
    ELSE LET rows == SetsQuery(db, auth.user.id, exercise_id) IN
         Result(200, OrderByDateDesc(SelectSeq(scan, LAMBDA s : s \in rows)), db)

\* the orders in which GET /sets/ may find its rows
SetScans(db, token, exercise_id) ==
    Scans(SetsQuery(db, get_current_user(db, token).user.id, exercise_id))

\* faulty variant: the query omits the user_id condition
SetsById(db, set_id, user_id) == {s \in db.sets : s.id = set_id}

\* SetDB.id == set_id, SetDB.user_id == current_user.id
OwnedSets(db, set_id, user_id) ==
    {s \in db.sets : s.id = set_id /\ s.user_id = user_id}

\* faulty variant: db.delete without db.commit
delete_set_no_commit(db, token, set_id) ==
    LET auth == get_current_user(db, token) IN
    IF auth.status # 200 THEN Result(auth.status, auth.detail, db)
    ELSE IF {s \in db.sets : s.id = set_id /\ s.user_id = auth.user.id} = {}
         THEN Result(404, "Set not found", db)
         ELSE Result(204, "", db)

delete_set(db, token, set_id) ==
    LET auth == get_current_user(db, token) IN
    IF auth.status # 200 THEN Result(auth.status, auth.detail, db)
    ELSE LET found == OwnedSets(db, set_id, auth.user.id) IN
         IF found = {} THEN Result(404, "Set not found", db)
         ELSE Result(204, "", [db EXCEPT !.sets = @ \ {CHOOSE s \in found : TRUE}])

(***************************************************************************)
(* The requests, one handler run each                                      *)
(***************************************************************************)
\* a client of POST /users/ before its request
Idle == [pc |-> "idle",
         user |-> [telegram_id |-> 0, full_name |-> None, username |-> None],
         status |-> 0]

NoRequest == [op |-> "none", token |-> <<>>, arg |-> <<>>]
NoResponse == [status |-> 0, body |-> ""]

Init ==
    /\ users = {}
    /\ exercises = {}
    /\ sets = {}
    /\ request = NoRequest
    /\ response = NoResponse
    /\ clients = [c \in 1 .. NumClients |-> Idle]

\* the store after a handler, its response, and the request that was served
Serve(op, token, arg, r) ==
    /\ \A e \in r.db.exercises : e.id <= MaxExercises
    /\ \A s \in r.db.sets : s.id <= MaxSetId
    /\ users' = r.db.users
    /\ exercises' = r.db.exercises
    /\ sets' = r.db.sets
    /\ request' = [op |-> op, token |-> token, arg |-> arg]
    /\ response' = [status |-> r.status, body |-> r.body]
    /\ UNCHANGED clients

CreateUser ==
    /\ request.op = "none"
    /\ \E user \in UserPayloads :
        Serve("create_user", <<>>, user, create_user(DB, user))

CreateExercise ==
    /\ request.op = "none"
    /\ \E token \in Tokens, exercise \in ExercisePayloads :
        Serve("create_exercise", token, exercise,
              create_exercise(DB, token, exercise))

GetExercises ==
    /\ request.op = "none"
    /\ \E token \in Tokens : \E scan \in ExerciseScans(DB, token) :
        Serve("get_exercises", token, <<>>, get_exercises(DB, token, scan))

GetExercise ==
    /\ request.op = "none"
    /\ \E token \in Tokens, exercise_id \in ExerciseIdArgs :
        Serve("get_exercise", token, exercise_id,
              get_exercise(DB, token, exercise_id))

CreateSet ==
    /\ request.op = "none"
    /\ \E token \in Tokens, set_data \in SetPayloads :
        Serve("create_set", token, set_data, create_set(DB, token, set_data))

GetSets ==
    /\ request.op = "none"
    /\ \E token \in Tokens, exercise_id \in ExerciseIdFilters :
      \E scan \in SetScans(DB, token, exercise_id) :
        Serve("get_sets", token, exercise_id,
              get_sets(DB, token, exercise_id, scan))

DeleteSet ==
    /\ request.op = "none"
    /\ \E token \in Tokens, set_id \in SetIdArgs :
        Serve("delete_set", token, set_id, delete_set(DB, token, set_id))

\* get_db's finally: the response is sent and the session is closed
Close ==
    /\ request.op # "none"
    /\ request' = NoRequest
    /\ response' = NoResponse
    /\ UNCHANGED <<users, exercises, sets, clients>>

Next ==
    \/ CreateUser
    \/ CreateExercise
    \/ GetExercises
    \/ GetExercise
    \/ CreateSet
    \/ GetSets
    \/ DeleteSet
    \/ Close

Spec == Init /\ [][Next]_vars

(***************************************************************************)
(* Concurrent POST /users/: each client runs create_user in its own        *)
(* session, the lookup and the insert/commit as separate steps            *)
(***************************************************************************)
\* db.query(UserDB).filter(...).first(), and the 400 when a row is found
Lookup(c) ==
    /\ clients[c].pc = "idle"
    /\ \E user \in UserPayloads :
         clients' = [clients EXCEPT ![c] =
                       IF UserExists(DB, user)
                       THEN [pc |-> "done", user |-> user, status |-> 400]
                       ELSE [pc |-> "insert", user |-> user, status |-> 0]]
    /\ UNCHANGED <<users, exercises, sets, request, response>>

\* db.add(new_user); db.commit()
Commit(c) ==
    /\ clients[c].pc = "insert"
    /\ LET r == InsertUser(DB, clients[c].user) IN
         /\ users' = r.db.users
         /\ clients' = [clients EXCEPT ![c].pc = "done", ![c].status = r.status]
    /\ UNCHANGED <<exercises, sets, request, response>>

NextConc == \E c \in 1 .. NumClients : Lookup(c) \/ Commit(c)

SpecConc == Init /\ [][NextConc]_vars

(***************************************************************************)
(* Properties                                                              *)
(***************************************************************************)
DBNext == [users |-> users', exercises |-> exercises', sets |-> sets']

StoreUnchanged == users' = users /\ exercises' = exercises /\ sets' = sets

ScopedOps == {"create_exercise", "get_exercises", "get_exercise",
              "create_set", "get_sets", "delete_set"}

\* the stored Users a credential stands for
Resolved(us, token) ==
    {u \in us : ParseInt(token).ok /\ u.telegram_id = ParseInt(token).value}

SameResponse(r1, r2) == r1.status = r2.status /\ r1.body = r2.body

\* the store without the Exercises and Sets of user b
Strip(db, b) ==
    [db EXCEPT !.exercises = {e \in @ : e.user_id # b.id},
               !.sets = {s \in @ : s.user_id # b.id}]

\* what the caller of token t gets from the reads and from delete_set is what
\* it would get without b's rows; b's ids answer like ids never assigned
ReadsInvisible(t, b) ==
    LET without == Strip(DB, b) IN
    /\ \A scan \in ExerciseScans(DB, t) :
         /\ SameResponse(get_exercises(DB, t, scan), get_exercises(without, t, scan))
         /\ \A e \in Range(get_exercises(DB, t, scan).body) : e.user_id # b.id
    /\ \A id \in ExerciseIdArgs :
         /\ SameResponse(get_exercise(DB, t, id), get_exercise(without, t, id))
         /\ (\E e \in exercises : e.id = id /\ e.user_id = b.id)
              => SameResponse(get_exercise(DB, t, id),
                              get_exercise(DB, t, MaxExercises + 1))
    /\ \A f \in ExerciseIdFilters : \A scan \in SetScans(DB, t, f) :
         /\ SameResponse(get_sets(DB, t, f, scan), get_sets(without, t, f, scan))
         /\ \A x \in Range(get_sets(DB, t, f, scan).body) : x.user_id # b.id
    /\ \A id \in SetIdArgs :
         /\ SameResponse(delete_set(DB, t, id), delete_set(without, t, id))
         /\ {x \in sets : x.user_id = b.id} \subseteq delete_set(DB, t, id).db.sets
         /\ (\E x \in sets : x.id = id /\ x.user_id = b.id)
              => SameResponse(delete_set(DB, t, id), delete_set(DB, t, MaxSetId + 1))

CreateSetSame(t, b) ==
    \A d \in SetPayloads :
        SameResponse(create_set(DB, t, d), create_set(Strip(DB, b), t, d))

CreateSetSameButId(t, b) ==
    \A d \in SetPayloads :
        LET r1 == create_set(DB, t, d)
            r2 == create_set(Strip(DB, b), t, d)
        IN /\ r1.status = r2.status
           /\ IF r1.status = 200
              THEN [r1.body EXCEPT !.id = 0] = [r2.body EXCEPT !.id = 0]
              ELSE r1.body = r2.body

\* the response just served to a caller shows nothing of another user's rows
ServedInvisible ==
    \A a \in Resolved(users, request.token) : \A b \in users \ {a} :
        /\ request.op = "get_exercise"
             => SameResponse(response,
                             get_exercise(Strip(DB, b), request.token, request.arg))
        /\ request.op \in {"get_exercises", "get_sets"}
             => \A x \in Range(response.body) : x.user_id # b.id
        /\ request.op = "delete_set" /\ response.status = 404
             => SameResponse(response,
                             delete_set(Strip(DB, b), request.token, request.arg))

\* C1 as stated: for distinct users A and B, every response A gets from
\* get_exercises, get_exercise, get_sets, create_set and delete_set equals the
\* response A would get in the store without B's Exercises and Sets.
C1_Invisible ==
    /\ ServedInvisible
    /\ request.op = "none" =>
         \A a \in users, b \in users : a # b =>
             \A t \in Tokens : a \in Resolved(users, t) =>
                 ReadsInvisible(t, b) /\ CreateSetSame(t, b)

\* C1 amended: the responses of get_exercises, get_exercise, get_sets and
\* delete_set equal those in the store without B's rows (ids owned by B answer
\* 404 like ids never assigned, lists hold no row of B, delete_set removes no
\* Set of B); the response of create_set equals it except for the new Set's id.
C1_InvisibleUpToSetId ==
    /\ ServedInvisible
    /\ request.op = "none" =>
         \A a \in users, b \in users : a # b =>
             \A t \in Tokens : a \in Resolved(users, t) =>
                 ReadsInvisible(t, b) /\ CreateSetSameButId(t, b)

\* a caller asked for an Exercise id owned by another user and got the 404
C1_Witness ==
    /\ request.op = "get_exercise"
    /\ response.status = 404
    /\ \E a \in Resolved(users, request.token) :
         \E e \in exercises : e.id = request.arg /\ e.user_id # a.id

\* C2: create_set by an authenticated caller with an exercise_id that names no
\* Exercise of the caller (none at all, or another user's) answers 404 and
\* leaves the store as it was, so every get_sets answers as before.
C2_CreateSetNotFound ==
    [][request'.op = "create_set" =>
         \A a \in Resolved(users, request'.token) :
             (\A e \in exercises :
                  ~(e.id = request'.arg.exercise_id /\ e.user_id = a.id))
             => /\ response'.status = 404
                /\ StoreUnchanged
                /\ \A t \in Tokens :
                     \A f \in {<<>>, <<request'.arg.exercise_id>>} :
                       /\ SetScans(DBNext, t, f) = SetScans(DB, t, f)
                       /\ \A scan \in SetScans(DB, t, f) :
                            SameResponse(get_sets(DBNext, t, f, scan),
                                         get_sets(DB, t, f, scan))]_vars

\* create_set under another user's Exercise was answered 404
C2_Witness ==
    /\ request.op = "create_set"
    /\ response.status = 404
    /\ \E a \in Resolved(users, request.token) :
         \E e \in exercises : e.id = request.arg.exercise_id /\ e.user_id # a.id

\* C3: create_user with a telegram_id of a stored User answers 400 and leaves
\* the users table (and the rest of the store) as it was.
C3_DuplicateUserConflict ==
    [][request'.op = "create_user"
         /\ (\E u \in users : u.telegram_id = request'.arg.telegram_id)
       => response'.status = 400 /\ StoreUnchanged]_vars

\* a duplicate telegram_id with another name and handle was rejected
C3_Witness ==
    /\ request.op = "create_user"
    /\ response.status = 400
    /\ \E u \in users :
         /\ u.telegram_id = request.arg.telegram_id
         /\ u.full_name # request.arg.full_name
         /\ u.username # request.arg.username

\* C4: a scoped operation presented with a credential that stands for no
\* stored User, whatever its form, answers 401 and leaves the store as it was.
C4_UnresolvedIs401 ==
    [][request'.op \in ScopedOps /\ Resolved(users, request'.token) = {}
       => response'.status = 401 /\ StoreUnchanged]_vars

\* C5: get_sets with an exercise_id filter returns exactly the caller's Sets
\* with that exercise_id, and without a filter exactly the caller's Sets.
C5_FilterExact ==
    request.op = "get_sets" =>
        \A a \in Resolved(users, request.token) :
            LET mine == {x \in sets : x.user_id = a.id}
                expected == IF request.arg = <<>> THEN mine
                            ELSE {x \in mine : x.exercise_id = request.arg[1]}
            IN /\ response.status = 200
               /\ Range(response.body) = expected
               /\ Len(response.body) = Cardinality(expected)

\* C6: the list get_sets returns is ordered by date descending.
C6_DateDescending ==
    request.op = "get_sets" /\ response.status = 200 =>
        \A i \in DOMAIN response.body : \A j \in DOMAIN response.body :
            i < j => response.body[i].date >= response.body[j].date

\* a filtered get_sets returned two Sets of different dates, the one stored
\* later (the larger id) first
C6_Witness ==
    /\ request.op = "get_sets"
    /\ response.status = 200
    /\ request.arg # <<>>
    /\ Len(response.body) >= 2
    /\ response.body[1].date > response.body[2].date
    /\ response.body[1].id > response.body[2].id

\* C7: delete_set of a Set of the caller answers 204 with no body and removes
\* that Set and nothing else, after which the caller's filtered get_sets does
\* not hold it and a second delete_set answers 404; delete_set of an absent id
\* answers 404 and changes nothing.
C7_DeleteExactlyOne ==
    [][request'.op = "delete_set" =>
         \A a \in Resolved(users, request'.token) :
             /\ \A x \in sets :
                  x.id = request'.arg /\ x.user_id = a.id
                  => /\ response'.status = 204
                     /\ response'.body = ""
                     /\ sets' = sets \ {x}
                     /\ Cardinality(sets') = Cardinality(sets) - 1
                     /\ users' = users
                     /\ exercises' = exercises
                     /\ delete_set(DBNext, request'.token, request'.arg).status = 404
                     /\ \A scan \in SetScans(DBNext, request'.token, <<x.exercise_id>>) :
                          x \notin Range(get_sets(DBNext, request'.token,
                                                  <<x.exercise_id>>, scan).body)
             /\ (\A x \in sets : x.id # request'.arg)
                  => response'.status = 404 /\ StoreUnchanged]_vars

\* the caller deleted one of its Sets while another user's Set was stored
C7_Witness ==
    /\ request.op = "delete_set"
    /\ response.status = 204
    /\ \E a \in Resolved(users, request.token) :
         /\ \A x \in sets : x.id # request.arg
         /\ \E x \in sets : x.user_id # a.id

\* what C8 says of a state: ids name one Exercise, and get_exercise by the
\* owner returns the stored Exercise
C8_Stored ==
    /\ \A e1 \in exercises : \A e2 \in exercises : e1.id = e2.id => e1 = e2
    /\ request.op = "get_exercise" =>
         \A a \in Resolved(users, request.token) : \A e \in exercises :
             e.id = request.arg /\ e.user_id = a.id
             => response.status = 200 /\ response.body = e

\* what C8 says of a step: a stored Exercise stays as it is, and
\* create_exercise returns and stores an Exercise with a new id, the caller's
\* id and the request's name and description
C8_Created ==
    /\ \A e \in exercises : e \in exercises'
    /\ request'.op = "create_exercise" =>
         \A a \in Resolved(users, request'.token) :
             /\ response'.status = 200
             /\ response'.body.id \notin {e.id : e \in exercises}
             /\ response'.body.user_id = a.id
             /\ response'.body.name = request'.arg.name
             /\ response'.body.description = request'.arg.description
             /\ exercises' = exercises \cup {response'.body}
             /\ SameResponse(get_exercise(DBNext, request'.token, response'.body.id),
                             response')

\* C8: create_exercise by an authenticated user returns an Exercise with a new
\* id, the caller's user_id and the request's name and description, and
\* get_exercise with that id by the caller returns the same entity whatever
\* operations came between.
C8_RoundTrip == [](C8_Stored) /\ [][C8_Created]_vars

\* the owner got its Exercise 1 back after a second Exercise and a Set were
\* stored
C8_Witness ==
    /\ request.op = "get_exercise"
    /\ response.status = 200
    /\ request.arg = 1
    /\ Cardinality(exercises) >= 2
    /\ sets # {}

Done(c) == clients[c].pc = "done"

\* C9: however the lookups and commits of concurrent create_user requests
\* interleave, no two stored Users share a telegram_id, at most one request per
\* telegram_id is answered with the created User, every other finished request
\* failed, and the stored Users are exactly those of the successful requests.
C9_UniqueUnderInterleaving ==
    /\ \A u1 \in users : \A u2 \in users :
         u1.telegram_id = u2.telegram_id => u1 = u2
    /\ \A c1 \in 1 .. NumClients : \A c2 \in 1 .. NumClients :
         (/\ c1 # c2
          /\ Done(c1) /\ Done(c2)
          /\ clients[c1].user.telegram_id = clients[c2].user.telegram_id)
         => ~(clients[c1].status = 200 /\ clients[c2].status = 200)
    /\ \A c \in 1 .. NumClients : Done(c) => clients[c].status \in {200, 400, 500}
    /\ Cardinality(users) = Cardinality({c \in 1 .. NumClients : clients[c].status = 200})
    /\ \A u \in users : \E c \in 1 .. NumClients :
         /\ clients[c].status = 200
         /\ clients[c].user.telegram_id = u.telegram_id
         /\ clients[c].user.full_name = u.full_name
         /\ clients[c].user.username = u.username

\* two requests with one telegram_id both passed the lookup; one was stored,
\* the other failed at its commit
C9_Witness ==
    \E c1 \in 1 .. NumClients : \E c2 \in 1 .. NumClients :
        /\ c1 # c2
        /\ clients[c1].user.telegram_id = clients[c2].user.telegram_id
        /\ clients[c1].status = 200
        /\ clients[c2].status = 500

\* C10: every stored Exercise references a stored User, every stored Set a
\* stored Exercise, and a Set's user_id is that of its Exercise.
C10_OwnershipConsistent ==
    /\ \A e \in exercises : \E u \in users : u.id = e.user_id
    /\ \A x \in sets : \E e \in exercises :
         e.id = x.exercise_id /\ e.user_id = x.user_id

\* a Set was stored while two users each own an Exercise
C10_Witness ==
    /\ request.op = "create_set"
    /\ response.status = 200
    /\ \E e1 \in exercises : \E e2 \in exercises : e1.user_id # e2.user_id
    /\ \E x \in sets : x.id = response.body.id

====
